---------------------------- MODULE Spec2Model ----------------------------
(***************************************************************************)
(* Model of zoxide's database engine (src/db/mod.rs): the in-memory        *)
(* registry of directory records (add / remove / dedup / age), the save    *)
(* protocol (temporary file + rename, with the Windows retry loop), the    *)
(* implicit save on drop, and open.                                        *)
(*                                                                         *)
(* Ranks are f32 in the program.  They are modelled as exact non-negative  *)
(* rationals <<n, d>> in lowest terms, so the arithmetic of add, dedup and *)
(* age is the real-number arithmetic the code's floating point             *)
(* approximates (rounding is not modelled).  Paths are byte strings,       *)
(* modelled as sequences of small naturals and ordered as Rust orders str  *)
(* (lexicographically by byte).                                            *)
(***************************************************************************)
EXTENDS Integers, Sequences, FiniteSets, TLC

(***************************************************************************)
(* Bounds of the model.                                                    *)
(***************************************************************************)
\* Operations performed in one behaviour of the session specification.
MaxOps == 5
\* Operations performed in one behaviour of the registry specification.
MaxRegOps == 2
\* Mutations performed by the sessions of the concurrent specification.
MaxConcOps == 3
\* Longest registry the registry specification starts from.
MaxLen == 4

(***************************************************************************)
(* Rank arithmetic: exact non-negative rationals in lowest terms.          *)
(***************************************************************************)
RECURSIVE GCD(_, _)
GCD(a, b) == IF b = 0 THEN a ELSE GCD(b, a % b)

RNorm(n, d) == LET g == GCD(n, d) IN <<n \div g, d \div g>>

R(n) == <<n, 1>>

RAdd(x, y) == RNorm(x[1] * y[2] + y[1] * x[2], x[2] * y[2])

RMul(x, y) == RNorm(x[1] * y[1], x[2] * y[2])

\* x / y, for y > 0
RDiv(x, y) == RNorm(x[1] * y[2], x[2] * y[1])

RLt(x, y) == x[1] * y[2] < y[1] * x[2]

RLe(x, y) == x[1] * y[2] <= y[1] * x[2]

Max(a, b) == IF a >= b THEN a ELSE b

(***************************************************************************)
(* Paths: str equality and str::cmp (lexicographic by byte).               *)
(***************************************************************************)
RECURSIVE PathLt(_, _)
PathLt(p, q) ==
    IF q = <<>> THEN FALSE
    ELSE IF p = <<>> THEN TRUE
    ELSE IF Head(p) # Head(q) THEN Head(p) < Head(q)
    ELSE PathLt(Tail(p), Tail(q))

(***************************************************************************)
(* Dir and Vec helpers.  Rust indexes from 0, the model from 1.            *)
(***************************************************************************)
Dir(p, r, t) == [path |-> p, rank |-> r, last_accessed |-> t]

\* Vec::swap_remove(idx): the last element takes the place of element idx.
SwapRemove(ds, i) ==
    LET n == Len(ds) IN
    IF i = n THEN SubSeq(ds, 1, n - 1)
    ELSE SubSeq(ds, 1, i - 1) \o <<ds[n]>> \o SubSeq(ds, i + 1, n - 1)

\* Index of the first record with this path, 0 when there is none
\* (iter().position / iter_mut().find).
RECURSIVE PositionFrom(_, _, _)
PositionFrom(ds, p, i) ==
    IF i > Len(ds) THEN 0
    ELSE IF ds[i].path = p THEN i
    ELSE PositionFrom(ds, p, i + 1)

Position(ds, p) == PositionFrom(ds, p, 1)

\* slice::sort_by(|a, b| a.path.cmp(&b.path)): a stable sort by path.
RECURSIVE InsertSorted(_, _)
InsertSorted(sorted, d) ==
    IF sorted = <<>> THEN <<d>>
    ELSE IF PathLt(d.path, sorted[Len(sorted)].path)
         THEN Append(InsertSorted(SubSeq(sorted, 1, Len(sorted) - 1), d),
                     sorted[Len(sorted)])
         ELSE Append(sorted, d)

RECURSIVE SortByPathFrom(_, _, _)
SortByPathFrom(ds, i, acc) ==
    IF i > Len(ds) THEN acc
    ELSE SortByPathFrom(ds, i + 1, InsertSorted(acc, ds[i]))

SortByPath(ds) == SortByPathFrom(ds, 1, <<>>)


RECURSIVE SumRankFrom(_, _)
SumRankFrom(ds, i) ==
    IF i > Len(ds) THEN R(0) ELSE RAdd(ds[i].rank, SumRankFrom(ds, i + 1))

\* dirs.iter().map(|dir| dir.rank).sum::<Rank>()
SumRank(ds) == SumRankFrom(ds, 1)

(***************************************************************************)
(* Database::add, remove, dedup, age as functions of the registry.         *)
(***************************************************************************)
\* Faulty variant of add: keeps the later of the two times instead of
\* overwriting last_accessed.
AddDirsKeepsLatest(ds, p, now) ==
    LET i == Position(ds, p) IN
    IF i = 0 THEN Append(ds, Dir(p, R(1), now))
    ELSE [ds EXCEPT ![i].last_accessed = Max(@, now), ![i].rank = RAdd(@, R(1))]

\* Faulty variant of add: appends a record without looking for the path.
AddDirsAppends(ds, p, now) == Append(ds, Dir(p, R(1), now))

AddDirs(ds, p, now) ==
    LET i == Position(ds, p) IN
    IF i = 0 THEN Append(ds, Dir(p, R(1), now))
    ELSE [ds EXCEPT ![i].last_accessed = now, ![i].rank = RAdd(@, R(1))]

\* Faulty variant of remove: takes out the last record with the path
\* (rposition for position).
RemoveDirsLast(ds, p) ==
    LET hits == {i \in 1..Len(ds) : ds[i].path = p} IN
    IF hits # {}
    THEN [dirs |-> SwapRemove(ds, CHOOSE i \in hits : \A j \in hits : j <= i),
          removed |-> TRUE]
    ELSE [dirs |-> ds, removed |-> FALSE]

RemoveDirs(ds, p) ==
    LET idx == Position(ds, p) IN
    IF idx # 0 THEN [dirs |-> SwapRemove(ds, idx), removed |-> TRUE]
    ELSE [dirs |-> ds, removed |-> FALSE]

\* One iteration of dedup's loop at (model) index idx, then the rest of the
\* loop: for idx in (1..len).rev(), with curr_dir = dirs[idx] and
\* next_dir = dirs[idx - 1].
RECURSIVE DedupLoop(_, _, _)
\* Faulty variants of the loop body: a merge that does not set modified; a
\* merge after which the next index is skipped; a merge that takes
\* curr_dir's last_accessed instead of the maximum.
DedupLoopNoFlag(ds, m, idx) ==
    IF idx < 2 THEN [dirs |-> ds, modified |-> m]
    ELSE IF ds[idx - 1].path # ds[idx].path THEN DedupLoop(ds, m, idx - 1)
    ELSE DedupLoop(
             SwapRemove([ds EXCEPT ![idx - 1].last_accessed =
                                       Max(@, ds[idx].last_accessed),
                                   ![idx - 1].rank = RAdd(@, ds[idx].rank)],
                        idx),
             m, idx - 1)

DedupLoopSkips(ds, m, idx) ==
    IF idx < 2 THEN [dirs |-> ds, modified |-> m]
    ELSE IF ds[idx - 1].path # ds[idx].path THEN DedupLoop(ds, m, idx - 1)
    ELSE DedupLoop(
             SwapRemove([ds EXCEPT ![idx - 1].last_accessed =
                                       Max(@, ds[idx].last_accessed),
                                   ![idx - 1].rank = RAdd(@, ds[idx].rank)],
                        idx),
             TRUE, idx - 2)

DedupLoopTakesLast(ds, m, idx) ==
    IF idx < 2 THEN [dirs |-> ds, modified |-> m]
    ELSE IF ds[idx - 1].path # ds[idx].path THEN DedupLoop(ds, m, idx - 1)
    ELSE DedupLoop(
             SwapRemove([ds EXCEPT ![idx - 1].last_accessed =
                                       ds[idx].last_accessed,
                                   ![idx - 1].rank = RAdd(@, ds[idx].rank)],
                        idx),
             TRUE, idx - 1)

DedupLoop(ds, m, idx) ==
    IF idx < 2 THEN [dirs |-> ds, modified |-> m]
    ELSE LET curr_dir == ds[idx]
             next_dir == ds[idx - 1]
         IN  IF next_dir.path # curr_dir.path
             THEN DedupLoop(ds, m, idx - 1)
             ELSE LET merged ==
                          [ds EXCEPT ![idx - 1].last_accessed =
                                         Max(@, curr_dir.last_accessed),
                                     ![idx - 1].rank = RAdd(@, curr_dir.rank)]
                  IN  DedupLoop(SwapRemove(merged, idx), TRUE, idx - 1)

\* Faulty variant of dedup: the records are not sorted first.
DedupDirsUnsorted(ds, m) == DedupLoop(ds, m, Len(ds))

DedupDirs(ds, m) ==
    LET sorted == SortByPath(ds) IN DedupLoop(sorted, m, Len(sorted))

\* age's loop: for idx in (0..len).rev()
RECURSIVE AgeLoop(_, _, _)
\* Faulty variant of age's loop: after swap_remove it visits the same
\* index again, scaling the record moved there a second time.
AgeLoopRescales(ds, factor, idx) ==
    IF idx < 1 THEN ds
    ELSE LET scaled == [ds EXCEPT ![idx].rank = RMul(@, factor)] IN
         IF RLt(scaled[idx].rank, R(1))
         THEN LET rest == SwapRemove(scaled, idx) IN
              AgeLoop(rest, factor, IF idx <= Len(rest) THEN idx ELSE idx - 1)
         ELSE AgeLoop(scaled, factor, idx - 1)

\* Faulty variant of age's loop: scales every record and removes none.
AgeLoopKeepsAll(ds, factor, idx) ==
    IF idx < 1 THEN ds
    ELSE AgeLoop([ds EXCEPT ![idx].rank = RMul(@, factor)], factor, idx - 1)

AgeLoop(ds, factor, idx) ==
    IF idx < 1 THEN ds
    ELSE LET scaled == [ds EXCEPT ![idx].rank = RMul(@, factor)] IN
         IF RLt(scaled[idx].rank, R(1))
         THEN AgeLoop(SwapRemove(scaled, idx), factor, idx - 1)
         ELSE AgeLoop(scaled, factor, idx - 1)

\* Faulty variant of age: the factor lacks the 0.9.
AgeDirsNoMargin(ds, m, max_age) ==
    LET sum_age == SumRank(ds) IN
    IF RLt(max_age, sum_age)
    THEN LET factor == RDiv(max_age, sum_age) IN
         [dirs |-> AgeLoop(ds, factor, Len(ds)), modified |-> TRUE]
    ELSE [dirs |-> ds, modified |-> m]

\* Faulty variant of age: fires already when the sum equals max_age.
AgeDirsFiresAtEqual(ds, m, max_age) ==
    LET sum_age == SumRank(ds) IN
    IF RLe(max_age, sum_age) /\ sum_age # R(0)
    THEN LET factor == RDiv(RMul(<<9, 10>>, max_age), sum_age) IN
         [dirs |-> AgeLoop(ds, factor, Len(ds)), modified |-> TRUE]
    ELSE [dirs |-> ds, modified |-> m]

\* Faulty variant of age: the factor is 1.1 * max_age / sum.
AgeDirsOverMargin(ds, m, max_age) ==
    LET sum_age == SumRank(ds) IN
    IF RLt(max_age, sum_age)
    THEN LET factor == RDiv(RMul(<<11, 10>>, max_age), sum_age) IN
         [dirs |-> AgeLoop(ds, factor, Len(ds)), modified |-> TRUE]
    ELSE [dirs |-> ds, modified |-> m]

AgeDirs(ds, m, max_age) ==
    LET sum_age == SumRank(ds) IN
    IF RLt(max_age, sum_age)
    THEN LET factor == RDiv(RMul(<<9, 10>>, max_age), sum_age) IN
         [dirs |-> AgeLoop(ds, factor, Len(ds)), modified |-> TRUE]
    ELSE [dirs |-> ds, modified |-> m]

(***************************************************************************)
(* The codec (DirList::to_bytes / DirList::from_bytes, in db/dir.rs).      *)
(* A file is a sequence of words: the version tag, the record count, then  *)
(* per record the path length, the path bytes, the rank (two words here,   *)
(* numerator and denominator) and last_accessed.                           *)
(***************************************************************************)
VERSION == 3

EncodeDir(d) ==
    <<Len(d.path)>> \o d.path \o <<d.rank[1], d.rank[2], d.last_accessed>>

RECURSIVE EncodeDirsFrom(_, _)
EncodeDirsFrom(ds, i) ==
    IF i > Len(ds) THEN <<>> ELSE EncodeDir(ds[i]) \o EncodeDirsFrom(ds, i + 1)

to_bytes(ds) == <<VERSION, Len(ds)>> \o EncodeDirsFrom(ds, 1)

RECURSIVE DecodeDirs(_, _, _, _)
DecodeDirs(b, pos, count, acc) ==
    IF count = 0 THEN [ok |-> TRUE, dirs |-> acc]
    ELSE IF pos > Len(b) \/ pos + b[pos] + 3 > Len(b)
         THEN [ok |-> FALSE, dirs |-> <<>>]
         ELSE LET n == b[pos]
                  d == Dir(SubSeq(b, pos + 1, pos + n),
                           <<b[pos + n + 1], b[pos + n + 2]>>,
                           b[pos + n + 3])
              IN  DecodeDirs(b, pos + n + 4, count - 1, Append(acc, d))

from_bytes(b) ==
    IF Len(b) < 2 THEN [ok |-> FALSE, dirs |-> <<>>]
    ELSE IF b[1] # VERSION THEN [ok |-> FALSE, dirs |-> <<>>]
    ELSE DecodeDirs(b, 3, b[2], <<>>)

(***************************************************************************)
(* The file system: data_dir/db.zo is absent or holds a byte sequence.     *)
(***************************************************************************)
NoFile == [exists |-> FALSE, bytes |-> <<>>]

File(b) == [exists |-> TRUE, bytes |-> b]

(***************************************************************************)
(* persist: the rename of the temporary file over db.zo.  The environment  *)
(* env decides each rename attempt: the first env.denied attempts fail     *)
(* with PermissionDenied, the next one ends as env.rename says ("ok", or   *)
(* "other" for any other error).                                           *)
(***************************************************************************)
MAX_TRIES == 10

Attempt(env, try) == IF try <= env.denied THEN "denied" ELSE env.rename

\* #[cfg(windows)] persist: for _ in 0..MAX_TRIES { match file.persist(..) }
RECURSIVE PersistRetry(_, _)
PersistRetry(env, try) ==
    IF try > MAX_TRIES
    THEN [ret |-> "ok", renamed |-> FALSE, tries |-> MAX_TRIES]
    ELSE LET a == Attempt(env, try) IN
         IF a = "ok" THEN [ret |-> "ok", renamed |-> TRUE, tries |-> try]
         ELSE IF a = "denied" THEN PersistRetry(env, try + 1)
         ELSE [ret |-> "err", renamed |-> FALSE, tries |-> try]

PersistWindows(env) == PersistRetry(env, 1)

\* #[cfg(unix)] persist: file.persist(&path)?; Ok(())
PersistUnix(env) ==
    IF Attempt(env, 1) = "ok"
    THEN [ret |-> "ok", renamed |-> TRUE, tries |-> 1]
    ELSE [ret |-> "err", renamed |-> FALSE, tries |-> 1]

Persist(plat, env) ==
    IF plat = "windows" THEN PersistWindows(env) ELSE PersistUnix(env)

(***************************************************************************)
(* Database::save as a function of the session and the file system.        *)
(* ret: what save returns; fail: the step that failed ("none", "create",   *)
(* "write", "persist"); tmp: whether a temporary file was created; tries:  *)
(* rename attempts made.  The temporary file is removed when save returns  *)
(* without having renamed it (NamedTempFile's drop).                       *)
(***************************************************************************)
\* Faulty variant of save: no early return when modified is false.
SaveResultAlways(ds, m, dsk, plat, env) ==
    IF env.create # "ok"
    THEN [modified |-> m, disk |-> dsk, ret |-> "err", fail |-> "create",
          tmp |-> FALSE, tries |-> 0]
    ELSE IF env.write # "ok"
    THEN [modified |-> m, disk |-> dsk, ret |-> "err", fail |-> "write",
          tmp |-> TRUE, tries |-> 0]
    ELSE LET p == Persist(plat, env) IN
         IF p.ret # "ok"
         THEN [modified |-> m, disk |-> dsk, ret |-> "err",
               fail |-> "persist", tmp |-> TRUE, tries |-> p.tries]
         ELSE [modified |-> FALSE,
               disk |-> IF p.renamed THEN File(to_bytes(ds)) ELSE dsk,
               ret |-> "ok",
               fail |-> IF p.renamed THEN "none" ELSE "persist",
               tmp |-> TRUE, tries |-> p.tries]

SaveResult(ds, m, dsk, plat, env) ==
    IF ~m
    THEN [modified |-> m, disk |-> dsk, ret |-> "ok", fail |-> "none",
          tmp |-> FALSE, tries |-> 0]
    ELSE LET buffer == to_bytes(ds) IN
         IF env.create # "ok"
         THEN [modified |-> m, disk |-> dsk, ret |-> "err", fail |-> "create",
               tmp |-> FALSE, tries |-> 0]
         ELSE IF env.write # "ok"
         THEN [modified |-> m, disk |-> dsk, ret |-> "err", fail |-> "write",
               tmp |-> TRUE, tries |-> 0]
         ELSE LET p == Persist(plat, env) IN
              IF p.ret # "ok"
              THEN [modified |-> m, disk |-> dsk, ret |-> "err",
                    fail |-> "persist", tmp |-> TRUE, tries |-> p.tries]
              ELSE [modified |-> FALSE,
                    disk |-> IF p.renamed THEN File(buffer) ELSE dsk,
                    ret |-> "ok",
                    fail |-> IF p.renamed THEN "none" ELSE "persist",
                    tmp |-> TRUE, tries |-> p.tries]

(***************************************************************************)
(* DatabaseFile::open as a function of the file system.  io is the outcome *)
(* of the I/O other than "not found": of fs::read when db.zo exists, of    *)
(* create_dir_all when it does not.                                        *)
(***************************************************************************)
\* Faulty variant of open: a file that does not decode is taken for an
\* empty database.
OpenResultLenient(dsk, io) ==
    IF dsk.exists
    THEN IF io # "ok" THEN [ret |-> "err", dirs |-> <<>>]
         ELSE LET r == from_bytes(dsk.bytes) IN
              IF r.ok THEN [ret |-> "ok", dirs |-> r.dirs]
              ELSE [ret |-> "ok", dirs |-> <<>>]
    ELSE IF io # "ok" THEN [ret |-> "err", dirs |-> <<>>]
         ELSE [ret |-> "ok", dirs |-> <<>>]

OpenResult(dsk, io) ==
    IF dsk.exists
    THEN IF io # "ok" THEN [ret |-> "err", dirs |-> <<>>]
         ELSE LET r == from_bytes(dsk.bytes) IN
              IF r.ok THEN [ret |-> "ok", dirs |-> r.dirs]
              ELSE [ret |-> "err", dirs |-> <<>>]
    ELSE IF io # "ok" THEN [ret |-> "err", dirs |-> <<>>]
         ELSE [ret |-> "ok", dirs |-> <<>>]

(***************************************************************************)
(* Inputs.                                                                 *)
(***************************************************************************)
PathA == <<1>>

PathAB == <<1, 2>>

PathB == <<2>>

\* Paths passed to add and remove.
Paths == {PathA, PathB}

\* Times passed to add (records read from a file carry 1 or 3).
Nows == {0, 2}

\* max_age passed to age (a Rank: not negative).
MaxAges == {R(0), R(2), R(5)}

\* Leading rename attempts that fail with PermissionDenied.
Denied == {0, 1, MAX_TRIES}

Envs ==
    [create : {"ok", "err"}, write : {"ok", "err"}, denied : Denied,
     rename : {"ok", "other"}]

\* Sequences over S of length at most n.
RECURSIVE SeqsUpTo(_, _)
SeqsUpTo(S, n) ==
    IF n = 0 THEN {<<>>}
    ELSE LET shorter == SeqsUpTo(S, n - 1) IN
         shorter \cup {Append(q, x) : q \in shorter, x \in S}

\* Registries a file may hold when a session opens it: empty, one record,
\* records out of path order, and a path that repeats (an imported or merged
\* file).
FileRegistries ==
    { <<>>,
      <<Dir(PathA, R(1), 1)>>,
      <<Dir(PathB, R(1), 1), Dir(PathA, R(2), 3)>>,
      <<Dir(PathA, R(1), 1), Dir(PathB, R(1), 1), Dir(PathA, R(2), 3)>> }

\* Files that do not decode: another version, a truncated record.
BadFiles == {File(<<2, 0>>), File(<<VERSION, 1, 1>>)}

InitDisks ==
    {NoFile} \cup BadFiles \cup {File(to_bytes(ds)) : ds \in FileRegistries}

\* Records of the registries the registry specification starts from.
RegDirs ==
    {Dir(PathA, R(1), 1), Dir(PathA, R(2), 3),
     Dir(PathAB, R(1), 3), Dir(PathB, R(3), 1)}

(***************************************************************************)
(* State.  platform: the build (cfg(unix) or cfg(windows)).  session:      *)
(* whether a Database exists.  dirs, modified: its fields.  disk:          *)
(* data_dir/db.zo.  saved: the registry as read by the last open or as     *)
(* held at the last save that found modified set and returned Ok.  op: the *)
(* last operation, its                                                     *)
(* arguments and its result.  pre: dirs, modified and disk before it, and  *)
(* the operation before it.  budget: operations left in this behaviour.    *)
(***************************************************************************)
VARIABLES platform, session, dirs, modified, disk, saved, op, pre, budget,
          loop, conc

vars ==
    <<platform, session, dirs, modified, disk, saved, op, pre, budget, loop,
      conc>>

\* Several sessions on one data directory: sess is each session's
\* Database and the position of its save (pc, the encoded buffer, the
\* bytes written to its temporary file so far); held and last record the
\* buffers the sessions encoded at their saves and the latest rename.
NoRename == [s |-> "none", bytes |-> <<>>]

NoConc == [sess |-> <<>>, held |-> {}, last |-> NoRename]

\* The retry loop of the windows persist, step by step: pc is where the
\* loop stands, outcomes the results of the rename attempts made so far,
\* rng and duration the locals of the PermissionDenied arm, ret what
\* persist returned.
LoopIdle ==
    [pc |-> "idle", outcomes |-> <<>>, rng |-> "None", duration |-> 0,
     ret |-> "none"]

NoOp ==
    [name |-> "none", path |-> <<>>, now |-> 0, max_age |-> R(0),
     ret |-> "none", fail |-> "none", tmp |-> FALSE, tries |-> 0]

Snapshot ==
    [dirs |-> dirs, modified |-> modified, disk |-> disk, session |-> session,
     opname |-> op.name]

Init ==
    /\ platform \in {"unix", "windows"}
    /\ session = "none"
    /\ dirs = <<>>
    /\ modified = FALSE
    /\ disk \in InitDisks
    /\ saved = <<>>
    /\ op = NoOp
    /\ pre = [dirs |-> <<>>, modified |-> FALSE, disk |-> disk,
              session |-> "none", opname |-> "none"]
    /\ budget = MaxOps
    /\ loop = LoopIdle
    /\ conc = NoConc

\* A session just opened on a file holding any registry up to MaxLen.
InitReg ==
    /\ platform = "unix"
    /\ session = "open"
    /\ dirs \in SeqsUpTo(RegDirs, MaxLen)
    /\ modified = FALSE
    /\ disk = File(to_bytes(dirs))
    /\ saved = dirs
    /\ op = NoOp
    /\ pre = [dirs |-> dirs, modified |-> FALSE, disk |-> disk,
              session |-> "open", opname |-> "none"]
    /\ budget = MaxRegOps
    /\ loop = LoopIdle
    /\ conc = NoConc

Step ==
    /\ budget > 0
    /\ budget' = budget - 1
    /\ pre' = Snapshot
    /\ UNCHANGED <<platform, loop, conc>>

Open ==
    /\ session = "none"
    /\ Step
    /\ \E io \in {"ok", "err"} :
          LET r == OpenResult(disk, io) IN
          /\ session' = IF r.ret = "ok" THEN "open" ELSE "none"
          /\ dirs' = r.dirs
          /\ saved' = r.dirs
          /\ op' = [NoOp EXCEPT !.name = "open", !.ret = r.ret]
    /\ modified' = FALSE
    /\ UNCHANGED disk

\* Faulty variant of add: writes the registry through to db.zo.
AddWritesThrough ==
    /\ session = "open"
    /\ Step
    /\ \E p \in Paths, now \in Nows :
          /\ dirs' = AddDirs(dirs, p, now)
          /\ disk' = File(to_bytes(AddDirs(dirs, p, now)))
          /\ op' = [NoOp EXCEPT !.name = "add", !.path = p, !.now = now,
                                !.ret = "unit"]
    /\ modified' = TRUE
    /\ UNCHANGED <<session, saved>>

Add ==
    /\ session = "open"
    /\ Step
    /\ \E p \in Paths, now \in Nows :
          /\ dirs' = AddDirs(dirs, p, now)
          /\ op' = [NoOp EXCEPT !.name = "add", !.path = p, !.now = now,
                                !.ret = "unit"]
    /\ modified' = TRUE
    /\ UNCHANGED <<session, disk, saved>>

Remove ==
    /\ session = "open"
    /\ Step
    /\ \E p \in Paths :
          LET r == RemoveDirs(dirs, p) IN
          /\ dirs' = r.dirs
          /\ modified' = (modified \/ r.removed)
          /\ op' = [NoOp EXCEPT !.name = "remove", !.path = p,
                                !.ret = IF r.removed THEN "true" ELSE "false"]
    /\ UNCHANGED <<session, disk, saved>>

Dedup ==
    /\ session = "open"
    /\ Step
    /\ LET r == DedupDirs(dirs, modified) IN
          /\ dirs' = r.dirs
          /\ modified' = r.modified
    /\ op' = [NoOp EXCEPT !.name = "dedup", !.ret = "unit"]
    /\ UNCHANGED <<session, disk, saved>>

Age ==
    /\ session = "open"
    /\ Step
    /\ \E max_age \in MaxAges :
          LET r == AgeDirs(dirs, modified, max_age) IN
          /\ dirs' = r.dirs
          /\ modified' = r.modified
          /\ op' = [NoOp EXCEPT !.name = "age", !.max_age = max_age,
                                !.ret = "unit"]
    /\ UNCHANGED <<session, disk, saved>>

\* An explicit save: its result is returned to the caller.
Save ==
    /\ session = "open"
    /\ Step
    /\ \E env \in Envs :
          LET r == SaveResult(dirs, modified, disk, platform, env) IN
          /\ modified' = r.modified
          /\ disk' = r.disk
          /\ saved' = IF modified /\ r.ret = "ok" THEN dirs ELSE saved
          /\ op' = [NoOp EXCEPT !.name = "save", !.ret = r.ret,
                                !.fail = r.fail, !.tmp = r.tmp,
                                !.tries = r.tries]
    /\ UNCHANGED <<session, dirs>>

\* impl Drop: save runs, an error is printed and swallowed, and the
\* Database is gone.
Drop ==
    /\ session = "open"
    /\ Step
    /\ \E env \in Envs :
          LET r == SaveResult(dirs, modified, disk, platform, env) IN
          /\ disk' = r.disk
          /\ op' = [NoOp EXCEPT !.name = "drop", !.ret = r.ret,
                                !.fail = r.fail, !.tmp = r.tmp,
                                !.tries = r.tries]
    /\ session' = "none"
    /\ dirs' = <<>>
    /\ modified' = FALSE
    /\ saved' = <<>>

\* The process ends without Drop running (kill, abort, power loss): the
\* Database in memory is lost and save is never called.
Abort ==
    /\ session = "open"
    /\ Step
    /\ op' = [NoOp EXCEPT !.name = "abort"]
    /\ session' = "none"
    /\ dirs' = <<>>
    /\ modified' = FALSE
    /\ saved' = <<>>
    /\ UNCHANGED disk

Next == Open \/ Add \/ Remove \/ Dedup \/ Age \/ Save \/ Drop \/ Abort

Spec == Init /\ [][Next]_vars

NextReg == Add \/ Remove \/ Dedup \/ Age

SpecReg == InitReg /\ [][NextReg]_vars

(***************************************************************************)
(* The windows persist as a process: save has written the temporary file   *)
(* and calls persist, whose loop makes one rename attempt per iteration.   *)
(* Each attempt ends "ok", "denied" (PermissionDenied) or "other".         *)
(***************************************************************************)
Outcomes == {"ok", "denied", "other"}

\* Uniform::from(50..150): the upper end is excluded.
Durations == 50..149

InitPersist ==
    /\ platform = "windows"
    /\ session = "open"
    /\ dirs = <<Dir(PathA, R(1), 1)>>
    /\ modified = TRUE
    /\ disk \in {NoFile, File(to_bytes(<<>>))}
    /\ saved = <<>>
    /\ op = NoOp
    /\ pre = [dirs |-> dirs, modified |-> TRUE, disk |-> disk,
              session |-> "open", opname |-> "none"]
    /\ budget = 0
    /\ loop = [LoopIdle EXCEPT !.pc = "attempt"]
    /\ conc = NoConc

\* Faulty variant of the loop: every failed rename is retried.
PersistAttemptRetriesAll ==
    /\ loop.pc = "attempt"
    /\ \E a \in Outcomes :
          /\ loop' = [loop EXCEPT
                        !.outcomes = Append(@, a),
                        !.pc = IF a = "ok" THEN "done" ELSE "sleep",
                        !.ret = IF a = "ok" THEN "ok" ELSE @]
          /\ disk' = IF a = "ok" THEN File(to_bytes(dirs)) ELSE disk
    /\ UNCHANGED <<platform, session, dirs, modified, saved, op, pre, budget,
                   conc>>

\* match file.persist(&path): Ok => break; PermissionDenied => the sleep
\* arm; any other error => return Err(e).
PersistAttempt ==
    /\ loop.pc = "attempt"
    /\ \E a \in Outcomes :
          /\ loop' = [loop EXCEPT
                        !.outcomes = Append(@, a),
                        !.pc = IF a = "denied" THEN "sleep" ELSE "done",
                        !.ret = IF a = "ok" THEN "ok"
                                ELSE IF a = "other" THEN "err" ELSE @]
          /\ disk' = IF a = "ok" THEN File(to_bytes(dirs)) ELSE disk
    /\ UNCHANGED <<platform, session, dirs, modified, saved, op, pre, budget,
                   conc>>

\* The PermissionDenied arm: seed the rng once, sleep a random time, take
\* the file back; then the next iteration, or past the loop to Ok(()).
PersistSleep ==
    /\ loop.pc = "sleep"
    /\ \E d \in Durations :
          loop' = [loop EXCEPT
                     !.rng = "Some",
                     !.duration = d,
                     !.pc = IF Len(loop.outcomes) < MAX_TRIES
                            THEN "attempt" ELSE "done",
                     !.ret = IF Len(loop.outcomes) < MAX_TRIES
                             THEN @ ELSE "ok"]
    /\ UNCHANGED <<platform, session, dirs, modified, disk, saved, op, pre,
                   budget, conc>>

NextPersist == PersistAttempt \/ PersistSleep

\* One thread runs the loop and thread::sleep returns: each step that is
\* enabled is eventually taken.
SpecPersist ==
    /\ InitPersist
    /\ [][NextPersist]_vars
    /\ WF_vars(PersistAttempt)
    /\ WF_vars(PersistSleep)

(***************************************************************************)
(* Several sessions on one data directory (unix persist).  Each was        *)
(* opened on the same db.zo; their mutations and the steps of their saves  *)
(* interleave freely.  A save is three steps: encode the registry and      *)
(* create the temporary file, write the buffer into it (write_all may      *)
(* need more than one write), rename it over db.zo.                        *)
(***************************************************************************)
Sessions == {"s1", "s2"}

InitConc ==
    /\ platform = "unix"
    /\ session = "none"
    /\ dirs = <<>>
    /\ modified = FALSE
    /\ disk \in {NoFile, File(to_bytes(<<Dir(PathB, R(1), 1)>>))}
    /\ saved = <<>>
    /\ op = NoOp
    /\ pre = [dirs |-> <<>>, modified |-> FALSE, disk |-> disk,
              session |-> "none", opname |-> "none"]
    /\ budget = MaxConcOps
    /\ loop = LoopIdle
    /\ conc = [sess |-> [s \in Sessions |->
                           [dirs |-> OpenResult(disk, "ok").dirs,
                            modified |-> FALSE, pc |-> "idle",
                            buffer |-> <<>>, tmp |-> <<>>]],
               held |-> {},
               last |-> NoRename]

ConcFrame == UNCHANGED <<platform, session, dirs, modified, saved, op, pre, loop>>

\* Database::add in session s.
ConcAdd ==
    /\ budget > 0
    /\ budget' = budget - 1
    /\ \E s \in Sessions, p \in Paths, now \in Nows :
          /\ conc.sess[s].pc = "idle"
          /\ conc' = [conc EXCEPT
                        !.sess[s].dirs = AddDirs(@, p, now),
                        !.sess[s].modified = TRUE]
    /\ UNCHANGED disk
    /\ ConcFrame

\* save in session s, up to NamedTempFile::new_in: the registry is encoded
\* and the temporary file, with a name of its own, is created or not.
ConcSaveCreate ==
    /\ \E s \in Sessions, create \in {"ok", "err"} :
          /\ conc.sess[s].pc = "idle"
          /\ conc.sess[s].modified
          /\ LET buffer == to_bytes(conc.sess[s].dirs) IN
             conc' = [conc EXCEPT
                        !.held = @ \cup {[s |-> s, bytes |-> buffer]},
                        !.sess[s].buffer = IF create = "ok" THEN buffer ELSE <<>>,
                        !.sess[s].pc = IF create = "ok" THEN "write" ELSE "idle"]
    /\ UNCHANGED <<disk, budget>>
    /\ ConcFrame

\* Faulty variant of the write step: the buffer is written into db.zo
\* itself instead of a temporary file.
ConcSaveWriteInPlace ==
    /\ \E s \in Sessions, write \in {"ok", "err"} :
          /\ conc.sess[s].pc = "write"
          /\ LET b == conc.sess[s].buffer
                 n == IF conc.sess[s].tmp = <<>> THEN (Len(b) + 1) \div 2
                      ELSE Len(b)
             IN
             /\ disk' = IF write = "ok" THEN File(SubSeq(b, 1, n)) ELSE disk
             /\ conc' = IF write = "ok"
                        THEN [conc EXCEPT
                                !.sess[s].tmp = SubSeq(b, 1, n),
                                !.sess[s].pc = IF n = Len(b) THEN "rename"
                                               ELSE "write"]
                        ELSE [conc EXCEPT
                                !.sess[s].tmp = <<>>,
                                !.sess[s].buffer = <<>>,
                                !.sess[s].pc = "idle"]
    /\ UNCHANGED budget
    /\ ConcFrame

\* write_all on the temporary file of session s: one write that takes the
\* buffer up to its middle or to its end, or fails; on failure save returns
\* and the temporary file is removed.
ConcSaveWrite ==
    /\ \E s \in Sessions, write \in {"ok", "err"} :
          /\ conc.sess[s].pc = "write"
          /\ LET b == conc.sess[s].buffer
                 n == IF conc.sess[s].tmp = <<>> THEN (Len(b) + 1) \div 2
                      ELSE Len(b)
             IN
             conc' = IF write = "ok"
                     THEN [conc EXCEPT
                             !.sess[s].tmp = SubSeq(b, 1, n),
                             !.sess[s].pc = IF n = Len(b) THEN "rename"
                                            ELSE "write"]
                     ELSE [conc EXCEPT
                             !.sess[s].tmp = <<>>,
                             !.sess[s].buffer = <<>>,
                             !.sess[s].pc = "idle"]
    /\ UNCHANGED <<disk, budget>>
    /\ ConcFrame

\* persist (unix) in session s: the temporary file replaces db.zo in one
\* step and modified is cleared, or the rename fails and save returns.
ConcSaveRename ==
    /\ \E s \in Sessions, rename \in {"ok", "other"} :
          /\ conc.sess[s].pc = "rename"
          /\ LET p == PersistUnix([denied |-> 0, rename |-> rename]) IN
             /\ disk' = IF p.renamed THEN File(conc.sess[s].tmp) ELSE disk
             /\ conc' = [conc EXCEPT
                           !.last = IF p.renamed
                                    THEN [s |-> s, bytes |-> conc.sess[s].buffer]
                                    ELSE @,
                           !.sess[s].modified = IF p.ret = "ok" THEN FALSE ELSE @,
                           !.sess[s].tmp = <<>>,
                           !.sess[s].buffer = <<>>,
                           !.sess[s].pc = "idle"]
    /\ UNCHANGED budget
    /\ ConcFrame

NextConc == ConcAdd \/ ConcSaveCreate \/ ConcSaveWrite \/ ConcSaveRename

SpecConc == InitConc /\ [][NextConc]_vars

(***************************************************************************)
(* Vocabulary of the properties.                                           *)
(***************************************************************************)
Indices(ds) == 1..Len(ds)

PathSet(ds) == {ds[i].path : i \in Indices(ds)}

CountPath(ds, p) == Cardinality({i \in Indices(ds) : ds[i].path = p})

CountDir(ds, d) == Cardinality({i \in Indices(ds) : ds[i] = d})

\* The same records, each as many times, in any order.
SameRecords(ds, es) ==
    /\ Len(ds) = Len(es)
    /\ \A i \in Indices(ds) : CountDir(ds, ds[i]) = CountDir(es, ds[i])

\* What a reopen of the data directory reads.
Reopened == OpenResult(disk, "ok")

IsSave == op.name \in {"save", "drop"}

\* Sum of the ranks, and latest last_accessed, of the records with path p
\* among ds[i..].
RECURSIVE GroupRank(_, _, _)
GroupRank(ds, p, i) ==
    IF i > Len(ds) THEN R(0)
    ELSE IF ds[i].path = p THEN RAdd(ds[i].rank, GroupRank(ds, p, i + 1))
    ELSE GroupRank(ds, p, i + 1)

RECURSIVE GroupLast(_, _, _)
GroupLast(ds, p, i) ==
    IF i > Len(ds) THEN 0
    ELSE IF ds[i].path = p
         THEN Max(ds[i].last_accessed, GroupLast(ds, p, i + 1))
         ELSE GroupLast(ds, p, i + 1)

RECURSIVE TotalRank(_, _)
TotalRank(ds, i) ==
    IF i > Len(ds) THEN R(0) ELSE RAdd(ds[i].rank, TotalRank(ds, i + 1))

(***************************************************************************)
(* C1.  Whenever save (explicit, or implicit at drop) returns success,     *)
(* reopening the data directory yields the registry held in memory when    *)
(* save returned: the same records in the same order.                      *)
(***************************************************************************)
C1_SaveThenReopenIdentical ==
    (IsSave /\ op.ret = "ok") =>
        (Reopened.ret = "ok" /\ Reopened.dirs = pre.dirs)

(***************************************************************************)
(* C2.  If save fails at any step (creating the temporary file, writing    *)
(* it, replacing db.zo), db.zo is what it was before the save, and after   *)
(* an explicit save modified is still true and the registry unchanged.     *)
(***************************************************************************)
C2_FailedSaveLeavesAllUnchanged ==
    (IsSave /\ op.fail # "none") =>
        /\ disk = pre.disk
        /\ op.name = "save" => (modified /\ dirs = pre.dirs)

\* The part of C2 that is about the file alone: it is never touched by a
\* save that did not rename.
C2_FailedSaveLeavesFile == (IsSave /\ op.fail # "none") => disk = pre.disk

(***************************************************************************)
(* C3.  Every failure of an explicit save is propagated: if db.zo was not  *)
(* replaced by the new content, save returns an error and leaves modified  *)
(* set; in particular when all MAX_TRIES rename attempts are denied.       *)
(***************************************************************************)
C3_SaveFailurePropagated ==
    (op.name = "save" /\ pre.modified /\ op.fail # "none") =>
        (op.ret = "err" /\ modified)

(***************************************************************************)
(* C4.  As claimed: in every state of a session, modified is true if and   *)
(* only if the registry differs from the state last saved (or read at      *)
(* open).                                                                  *)
(***************************************************************************)
C4_ModifiedIffDiffers == session = "open" => (modified <=> dirs # saved)

\* C4 as amended: while modified is false the registry holds exactly the
\* records (each as many times, in any order) read by the last open or held
\* at the last save that found modified set and returned Ok.
C4_UnmodifiedHoldsSavedRecords ==
    (session = "open" /\ ~modified) => SameRecords(dirs, saved)

\* An operation changed the registry of a session opened on a file and left
\* modified false only if it kept the records: here dedup reordered them.
C4_Witness ==
    /\ session = "open"
    /\ ~modified
    /\ op.name = "dedup"
    /\ dirs # saved
    /\ Len(dirs) = 2

(***************************************************************************)
(* C5.  As claimed: for every registry, also one holding a path several    *)
(* times, remove(p) returns true iff some record had path p, and           *)
(* afterwards no record has path p.                                        *)
(***************************************************************************)
C5_RemoveLeavesNoRecord ==
    op.name = "remove" =>
        /\ (op.ret = "true") <=> (op.path \in PathSet(pre.dirs))
        /\ op.path \notin PathSet(dirs)

\* C5 as amended: remove(p) returns true iff some record had path p; it
\* then takes out exactly the first record with path p and keeps every other
\* record, and sets modified; otherwise it changes nothing.  So no record
\* has path p afterwards when p occurred at most once.
C5_RemoveTakesFirstRecord ==
    op.name = "remove" =>
        /\ (op.ret = "true") <=> (op.path \in PathSet(pre.dirs))
        /\ op.ret = "true" =>
              /\ modified
              /\ \E i \in Indices(pre.dirs) :
                    /\ pre.dirs[i].path = op.path
                    /\ \A j \in 1..(i - 1) : pre.dirs[j].path # op.path
                    /\ SameRecords(Append(dirs, pre.dirs[i]), pre.dirs)
        /\ op.ret = "false" => (dirs = pre.dirs /\ modified = pre.modified)
        /\ CountPath(pre.dirs, op.path) <= 1 => op.path \notin PathSet(dirs)

\* remove returned true on a registry holding the path twice.
C5_Witness ==
    /\ op.name = "remove"
    /\ op.ret = "true"
    /\ CountPath(pre.dirs, op.path) = 2
    /\ Len(pre.dirs) >= 3

(***************************************************************************)
(* C6.  add(path, now): the first record with this path gets               *)
(* last_accessed = now (also when now is smaller) and rank + 1; with no    *)
(* such record, (path, 1, now) is appended.  Every other record is         *)
(* unchanged, the length grows by at most one, modified becomes true.      *)
(* A path that was absent is held once afterwards and one held once is     *)
(* still held once, so n adds of a new path leave one record of rank n.    *)
(***************************************************************************)
C6_AddBumpsOrAppends ==
    op.name = "add" =>
        /\ modified
        /\ CountPath(dirs, op.path) = Max(1, CountPath(pre.dirs, op.path))
        /\ IF op.path \in PathSet(pre.dirs)
           THEN /\ Len(dirs) = Len(pre.dirs)
                /\ \E i \in Indices(pre.dirs) :
                      /\ pre.dirs[i].path = op.path
                      /\ \A j \in 1..(i - 1) : pre.dirs[j].path # op.path
                      /\ dirs[i].path = op.path
                      /\ dirs[i].last_accessed = op.now
                      /\ dirs[i].rank = RAdd(pre.dirs[i].rank, R(1))
                      /\ \A k \in Indices(dirs) :
                            k # i => dirs[k] = pre.dirs[k]
           ELSE /\ Len(dirs) = Len(pre.dirs) + 1
                /\ dirs[Len(dirs)] = Dir(op.path, R(1), op.now)
                /\ \A k \in Indices(pre.dirs) : dirs[k] = pre.dirs[k]

\* add bumped an existing record with a now below its last_accessed.
C6_Witness ==
    /\ op.name = "add"
    /\ \E i \in Indices(pre.dirs) :
          /\ pre.dirs[i].path = op.path
          /\ pre.dirs[i].last_accessed > op.now
          /\ dirs[i].rank = R(3)

(***************************************************************************)
(* C7.  After dedup every path occurs at most once, and the paths present  *)
(* are exactly the paths present before.                                   *)
(***************************************************************************)
C7_DedupPathsUnique ==
    op.name = "dedup" =>
        /\ \A p \in PathSet(dirs) : CountPath(dirs, p) = 1
        /\ PathSet(dirs) = PathSet(pre.dirs)

\* dedup on a registry holding one path three times beside another path.
C7_Witness ==
    /\ op.name = "dedup"
    /\ \E p \in PathSet(pre.dirs) : CountPath(pre.dirs, p) = 3
    /\ Len(dirs) = 2

(***************************************************************************)
(* C8.  As claimed: dedup applied to the result of dedup yields an equal   *)
(* registry (same records, same order) and does not set modified.          *)
(***************************************************************************)
C8_DedupTwiceIdentical ==
    (op.name = "dedup" /\ pre.opname = "dedup") =>
        (dirs = pre.dirs /\ modified = pre.modified)

\* C8 as amended: dedup applied to the result of dedup yields the same
\* records with the same ranks and last_accessed values, possibly in
\* another order (the first dedup's swap-remove may leave the records out
\* of path order, the second sorts them), and does not set modified.
C8_DedupTwiceSameRecords ==
    (op.name = "dedup" /\ pre.opname = "dedup") =>
        (SameRecords(dirs, pre.dirs) /\ modified = pre.modified)

\* A second dedup that reordered what the first one left.
C8_Witness ==
    /\ op.name = "dedup"
    /\ pre.opname = "dedup"
    /\ dirs # pre.dirs

(***************************************************************************)
(* C9.  dedup conserves rank and recency per path: the record of p after   *)
(* dedup has the sum of the ranks and the maximum of the last_accessed of  *)
(* the records of p before; so the total rank is unchanged.                *)
(***************************************************************************)
C9_DedupConserves ==
    op.name = "dedup" =>
        /\ \A i \in Indices(dirs) :
              /\ dirs[i].rank = GroupRank(pre.dirs, dirs[i].path, 1)
              /\ dirs[i].last_accessed = GroupLast(pre.dirs, dirs[i].path, 1)
        /\ \A p \in PathSet(pre.dirs) : p \in PathSet(dirs)
        /\ TotalRank(dirs, 1) = TotalRank(pre.dirs, 1)

\* dedup merged two records of which the first held the later
\* last_accessed and the second the larger rank.
C9_Witness ==
    /\ op.name = "dedup"
    /\ Len(dirs) < Len(pre.dirs)
    /\ \E i, j \in Indices(pre.dirs) :
          /\ i < j
          /\ pre.dirs[i].path = pre.dirs[j].path
          /\ pre.dirs[i].last_accessed > pre.dirs[j].last_accessed
          /\ RLt(pre.dirs[j].rank, pre.dirs[i].rank)

(***************************************************************************)
(* C10.  Whenever age(M) fires (the sum of the ranks exceeds M), the sum   *)
(* of the surviving ranks is at most 0.9 * M and every surviving record    *)
(* has rank >= 1.                                                          *)
(***************************************************************************)
AgeFired == op.name = "age" /\ RLt(op.max_age, TotalRank(pre.dirs, 1))

C10_AgeBound ==
    AgeFired =>
        /\ RLe(TotalRank(dirs, 1), RMul(<<9, 10>>, op.max_age))
        /\ \A i \in Indices(dirs) : RLe(R(1), dirs[i].rank)

\* age fired, dropped a record and kept another, scaled.
C10_Witness ==
    /\ AgeFired
    /\ 0 < Len(dirs)
    /\ Len(dirs) < Len(pre.dirs)
    /\ \E i \in Indices(dirs) : dirs[i].rank[2] # 1

(***************************************************************************)
(* C11.  age(max_age) is a complete no-op when the sum of the ranks is     *)
(* less than or equal to max_age (also when it is exactly equal): the      *)
(* records, their order, every rank and modified are unchanged.            *)
(***************************************************************************)
C11_AgeBelowThresholdNoOp ==
    (op.name = "age" /\ RLe(TotalRank(pre.dirs, 1), op.max_age)) =>
        (dirs = pre.dirs /\ modified = pre.modified)

\* age(M) on a registry, not yet modified, whose ranks sum to exactly M > 0.
C11_Witness ==
    /\ op.name = "age"
    /\ TotalRank(pre.dirs, 1) = op.max_age
    /\ Len(pre.dirs) >= 2
    /\ ~modified

(***************************************************************************)
(* C12.  open on a data directory without db.zo returns an empty registry  *)
(* with modified = false and creates no db.zo; a save (explicit or at      *)
(* drop) that finds modified = false creates no temporary file, leaves     *)
(* db.zo as it is (absent if it was) and returns success.                  *)
(***************************************************************************)
C12_OpenAndUnmodifiedSaveWriteNothing ==
    /\ (op.name = "open" /\ ~pre.disk.exists /\ op.ret = "ok") =>
          (dirs = <<>> /\ ~modified /\ session = "open" /\ disk = NoFile)
    /\ (IsSave /\ ~pre.modified) =>
          /\ op.ret = "ok"
          /\ ~op.tmp
          /\ op.tries = 0
          /\ disk = pre.disk
          /\ op.name = "save" => (~modified /\ dirs = pre.dirs)

\* A session opened without db.zo and dropped at once: still no db.zo.
C12_Witness ==
    /\ op.name = "drop"
    /\ pre.opname = "open"
    /\ ~pre.modified
    /\ ~disk.exists

(***************************************************************************)
(* C15.  If db.zo exists but cannot be decoded, open returns an error and  *)
(* no session; so no save, explicit or implicit, ever runs against that    *)
(* file and db.zo stays byte for byte as it was: it is never replaced by   *)
(* an empty database.                                                      *)
(***************************************************************************)
Undecodable(dsk) == dsk.exists /\ ~from_bytes(dsk.bytes).ok

C15_UndecodableFileRefusedAndKept ==
    /\ (op.name = "open" /\ Undecodable(pre.disk)) =>
          (op.ret = "err" /\ session = "none" /\ dirs = <<>>)
    /\ Undecodable(pre.disk) => disk = pre.disk
    /\ Undecodable(disk) => (session = "none" /\ ~IsSave)

\* A second open of the undecodable file, refused like the first.
C15_Witness ==
    /\ op.name = "open"
    /\ pre.opname = "open"
    /\ Undecodable(pre.disk)
    /\ op.ret = "err"
    /\ disk = pre.disk

(***************************************************************************)
(* C16.  When age fires, with factor = 0.9 * max_age / S computed once     *)
(* from the sum S before the call, the registry afterwards holds exactly   *)
(* the records whose rank * factor is at least 1, each scaled exactly      *)
(* once, with path and last_accessed unchanged; modified is set.           *)
(***************************************************************************)
AgeFactor == RDiv(RMul(<<9, 10>>, op.max_age), TotalRank(pre.dirs, 1))

\* The records from position i on, each scaled once, the survivors only.
RECURSIVE ScaledSurvivors(_, _, _)
ScaledSurvivors(ds, factor, i) ==
    IF i > Len(ds) THEN <<>>
    ELSE LET r == RMul(ds[i].rank, factor) IN
         (IF RLe(R(1), r)
          THEN <<Dir(ds[i].path, r, ds[i].last_accessed)>> ELSE <<>>)
            \o ScaledSurvivors(ds, factor, i + 1)

C16_AgeScalesOnceAndDrops ==
    AgeFired =>
        /\ modified
        /\ SameRecords(dirs, ScaledSurvivors(pre.dirs, AgeFactor, 1))

\* age drops a record that is not the last one (so swap_remove moves a
\* record that was already scaled) and keeps at least two.
C16_Witness ==
    /\ AgeFired
    /\ Len(dirs) >= 2
    /\ Len(dirs) < Len(pre.dirs)
    /\ \E i \in 1..(Len(pre.dirs) - 1) :
          RLt(RMul(pre.dirs[i].rank, AgeFactor), R(1))

(***************************************************************************)
(* C18.  Every operation preserves path uniqueness: on a registry in which *)
(* every path occurs at most once (the empty one included), add, remove,   *)
(* dedup and age leave every path occurring at most once.                  *)
(***************************************************************************)
UniquePaths(ds) == \A i, j \in Indices(ds) : ds[i].path = ds[j].path => i = j

C18_OperationsKeepPathsUnique ==
    (op.name \in {"add", "remove", "dedup", "age"} /\ UniquePaths(pre.dirs))
        => UniquePaths(dirs)

\* add of a path that the registry, with unique paths, already holds.
C18_Witness ==
    /\ op.name = "add"
    /\ pre.opname \in {"add", "remove", "dedup", "age"}
    /\ UniquePaths(pre.dirs)
    /\ Len(pre.dirs) >= 2
    /\ op.path \in PathSet(pre.dirs)

(***************************************************************************)
(* C19.  In a session whose registry started empty or was read from a file *)
(* with every rank at least 1, after any sequence of add, remove, dedup    *)
(* and age (max_age >= 0) every record has rank at least 1, whether or     *)
(* not aging fired.                                                        *)
(***************************************************************************)
RanksAtLeastOne(ds) == \A i \in Indices(ds) : RLe(R(1), ds[i].rank)

C19_RanksAtLeastOne == RanksAtLeastOne(dirs)

\* age fired, dropped a record and kept one with a scaled rank.
C19_Witness ==
    /\ AgeFired
    /\ Len(dirs) >= 1
    /\ Len(dirs) < Len(pre.dirs)
    /\ \E i \in Indices(dirs) : RLt(dirs[i].rank, R(2))

(***************************************************************************)
(* C20.  As stated: after age(max_age) has fired the sum of the ranks is   *)
(* strictly below max_age.                                                 *)
(***************************************************************************)
C20_SumStrictlyBelowMaxAge ==
    AgeFired => RLt(TotalRank(dirs, 1), op.max_age)

(***************************************************************************)
(* C20, amended.  After age(max_age) has fired the sum of the ranks is at  *)
(* most max_age, and strictly below it when max_age > 0; a second          *)
(* age(max_age) directly afterwards changes no record and does not set     *)
(* modified.                                                               *)
(***************************************************************************)
C20_SecondAgeIsNoOp ==
    AgeFired =>
        /\ RLe(TotalRank(dirs, 1), op.max_age)
        /\ RLt(R(0), op.max_age) => RLt(TotalRank(dirs, 1), op.max_age)
        /\ AgeDirs(dirs, FALSE, op.max_age) = [dirs |-> dirs, modified |-> FALSE]

\* age fired and left records whose sum is positive.
C20_Witness ==
    /\ AgeFired
    /\ Len(dirs) >= 2
    /\ Len(dirs) = Len(pre.dirs)

(***************************************************************************)
(* C14.  add, remove, dedup and age never touch the file system: db.zo     *)
(* changes only inside save (explicit, or at drop), so a session that ends *)
(* without save running, such as a process killed between mutations,       *)
(* leaves db.zo as the last successful save left it.                       *)
(***************************************************************************)
C14_OnlySaveChangesFile ==
    /\ op.name \in {"add", "remove", "dedup", "age", "abort"} => disk = pre.disk
    /\ disk # pre.disk =>
          /\ IsSave
          /\ pre.modified
          /\ op.ret = "ok"
          /\ disk = File(to_bytes(pre.dirs))

\* The process dies after a mutation that was never saved.
C14_Witness ==
    /\ op.name = "abort"
    /\ pre.opname \in {"add", "remove", "dedup", "age"}
    /\ pre.modified
    /\ disk.exists
    /\ disk # File(to_bytes(pre.dirs))

(***************************************************************************)
(* C17.  On the retrying platform, replacing db.zo makes at most 10 rename *)
(* attempts; a further attempt is made only after an attempt that failed   *)
(* with permission denied; any other rename error ends the loop at once    *)
(* and is returned; the first successful attempt ends the loop; and the    *)
(* loop always terminates.                                                 *)
(***************************************************************************)
LoopRunning == loop.pc \in {"attempt", "sleep"}

LastOutcome == loop.outcomes[Len(loop.outcomes)]

C17_LoopSafe ==
    /\ Len(loop.outcomes) <= MAX_TRIES
    /\ \A i \in 1..(Len(loop.outcomes) - 1) : loop.outcomes[i] = "denied"
    /\ (LoopRunning /\ loop.outcomes # <<>>) => LastOutcome = "denied"
    /\ loop.pc = "attempt" => Len(loop.outcomes) < MAX_TRIES
    /\ loop.outcomes # <<>> =>
          /\ LastOutcome = "other" => (loop.pc = "done" /\ loop.ret = "err")
          /\ LastOutcome = "ok" =>
                (loop.pc = "done" /\ loop.ret = "ok"
                   /\ disk = File(to_bytes(dirs)))
    /\ loop.ret = "err" => LastOutcome = "other"
    /\ LoopRunning => (loop.ret = "none" /\ disk = pre.disk)

C17_RetryBoundedAndTerminates == []C17_LoopSafe /\ <>(loop.pc = "done")

\* The loop ended by an error other than permission denied, after two
\* attempts that were denied.
C17_Witness ==
    /\ loop.pc = "done"
    /\ loop.outcomes = <<"denied", "denied", "other">>
    /\ loop.ret = "err"
    /\ loop.rng = "Some"

(***************************************************************************)
(* C13.  With two sessions open on the same data directory and their saves *)
(* interleaved in any order, db.zo is at every instant absent (or the file *)
(* the sessions were opened on) or the complete encoding of the registry   *)
(* one session held at one of its saves, never a mixture or a partial      *)
(* write; once no save is in progress, db.zo holds the content of the save *)
(* whose rename happened last.                                             *)
(***************************************************************************)
AllIdle == \A s \in Sessions : conc.sess[s].pc = "idle"

C13_FileIsOneCompleteSave ==
    /\ \/ disk = pre.disk
       \/ \E h \in conc.held : disk = File(h.bytes)
    /\ disk.exists =>
          LET r == from_bytes(disk.bytes) IN
          r.ok /\ to_bytes(r.dirs) = disk.bytes
    /\ AllIdle =>
          IF conc.last = NoRename THEN disk = pre.disk
          ELSE /\ disk = File(conc.last.bytes)
               /\ [s |-> conc.last.s, bytes |-> conc.last.bytes] \in conc.held

\* Both sessions saved; s2 renamed last and the update of s1 is lost.
C13_Witness ==
    /\ AllIdle
    /\ conc.last.s = "s2"
    /\ ~conc.sess["s1"].modified
    /\ ~conc.sess["s2"].modified
    /\ [s |-> "s1", bytes |-> to_bytes(conc.sess["s1"].dirs)] \in conc.held
    /\ disk = File(to_bytes(conc.sess["s2"].dirs))
    /\ disk # File(to_bytes(conc.sess["s1"].dirs))

=============================================================================
